---------------------------- MODULE Spec2Model ----------------------------
(***************************************************************************)
(* A model of pyzohocrm: the OAuth token manager (token_manager.py) and    *)
(* the stateless API client (api.py).                                      *)
(*                                                                         *)
(* Python values are modelled as follows.                                  *)
(*   - None is the empty tuple << >>, any other value v is <<v>>.          *)
(*   - A str that the code inspects character by character (the domain    *)
(*     name) is a sequence of one-character strings.                       *)
(*   - A datetime is a number of clock ticks; TicksPerSec ticks make one   *)
(*     second, so that a datetime has a sub-second part which strftime     *)
(*     with "%Y-%m-%d %H:%M:%S" drops.                                     *)
(***************************************************************************)
EXTENDS Integers, Sequences, FiniteSets, TLC

VARIABLES
    tm,        \* the TokenManager instance of the process, or NoManager
    file,      \* content of the file at token_path
    now,       \* the wall clock, datetime.now(), in ticks
    last,      \* what the last call did: its arguments, I/O and outcome
    calls,     \* number of get_access_token() / _refresh_token() calls so far
    advances,  \* number of clock advances so far
    issued,    \* history: the most recent successful refresh (token, time)
    thr,       \* per thread: position in get_access_token() and its locals
    api,       \* what the last ZohoApi call did
    klass,     \* the dict of the class TokenManager, shared by its instances
    tms,       \* the two managers of one process: each one's instance or None
    files      \* the content of each of the two managers' token files

vars == <<tm, file, now, last, calls, advances, issued, thr, api, klass, tms, files>>

(* The state of a process that holds two managers. *)
twoVars == <<klass, tms, files>>

-----------------------------------------------------------------------------
(* Bounds of the model *)

MaxCalls == 2
MaxAdvances == 2
MaxThreadCalls == 1
StartTicks == 10

(* Resolution of the clock below one second. *)
TicksPerSec == 2

(* timedelta(minutes=50) *)
LeaseMinutes == 50
LeaseTicks == LeaseMinutes * 60 * TicksPerSec

None == << >>
Some(v) == <<v>>

-----------------------------------------------------------------------------
(* str.lower() on the domain name *)

UpperChars == <<"A","B","C","D","E","F","G","H","I","J","K","L","M",
                "N","O","P","Q","R","S","T","U","V","W","X","Y","Z">>
LowerChars == <<"a","b","c","d","e","f","g","h","i","j","k","l","m",
                "n","o","p","q","r","s","t","u","v","w","x","y","z">>

LowerChar(c) ==
    IF \E i \in 1..26 : UpperChars[i] = c
    THEN LowerChars[CHOOSE i \in 1..26 : UpperChars[i] = c]
    ELSE c

UpperChar(c) ==
    IF \E i \in 1..26 : LowerChars[i] = c
    THEN UpperChars[CHOOSE i \in 1..26 : LowerChars[i] = c]
    ELSE c

lower(s) == [i \in 1..Len(s) |-> LowerChar(s[i])]

upper(s) == [i \in 1..Len(s) |-> UpperChar(s[i])]

(* Every spelling of s that differs from it in letter case only. *)
CaseVariants(s) ==
    { [i \in 1..Len(s) |-> IF m[i] THEN UpperChar(s[i]) ELSE s[i]] :
          m \in [1..Len(s) -> BOOLEAN] }

(* s with its first letter and every letter at an odd place in upper case. *)
Capitalized(s) == [i \in 1..Len(s) |-> IF i = 1 THEN UpperChar(s[i]) ELSE s[i]]
Alternating(s) == [i \in 1..Len(s) |-> IF i % 2 = 1 THEN UpperChar(s[i]) ELSE s[i]]

-----------------------------------------------------------------------------
(* _get_domain_url: the dict zoho_urls *)

UnitedStates == <<"u","n","i","t","e","d"," ","s","t","a","t","e","s">>
Europe == <<"e","u","r","o","p","e">>
India == <<"i","n","d","i","a">>
Australia == <<"a","u","s","t","r","a","l","i","a">>
Japan == <<"j","a","p","a","n">>
Canada == <<"c","a","n","a","d","a">>

Regions == {UnitedStates, Europe, India, Australia, Japan, Canada}

zoho_urls ==
    [k \in Regions |->
        CASE k = UnitedStates -> "https://accounts.zoho.com/"
          [] k = Europe -> "https://accounts.zoho.eu/"
          [] k = India -> "https://accounts.zoho.in/"
          [] k = Australia -> "https://accounts.zoho.com.au/"
          [] k = Japan -> "https://accounts.zoho.jp/"
          [] k = Canada -> "https://accounts.zohocloud.ca/"]

(* zoho_urls[domain_name]: the URL, or KeyError for a key the dict lacks. *)
get_domain_url(domain_name) ==
    IF domain_name \in DOMAIN zoho_urls
    THEN [raised |-> None, value |-> Some(zoho_urls[domain_name])]
    ELSE [raised |-> Some("KeyError"), value |-> None]

(* The names a caller passes: every region in several spellings, the two   *)
(* five-letter regions in every spelling, and names of no region.          *)
OtherNames ==
    { <<"m","a","r","s">>, << >>, <<"i","n","d","i">>,
      <<"i","n","d","i","a"," ">>, <<"U","S">>, <<"z","o","h","o",".","i","n">> }

DomainNames ==
    UNION { {r, upper(r), Capitalized(r), Alternating(r)} : r \in Regions }
      \cup CaseVariants(India) \cup CaseVariants(Japan) \cup OtherNames

-----------------------------------------------------------------------------
(* Access tokens the OAuth server issues, with the length of each string. *)

ServerTokens == {"tokA", "tokenB"}

TokLen(t) == Len(t)

-----------------------------------------------------------------------------
(* datetime.strftime / datetime.strptime with "%Y-%m-%d %H:%M:%S".         *)
(* A str in that format is [fmt |-> "ymdhms", secs |-> whole seconds];     *)
(* any other str is [fmt |-> "other", text |-> ...]; a JSON number is      *)
(* [fmt |-> "number"].                                                     *)

strftime(dt) == [fmt |-> "ymdhms", secs |-> dt \div TicksPerSec]

strptime(s) ==
    CASE s.fmt = "ymdhms" -> [raised |-> None, value |-> Some(s.secs * TicksPerSec)]
      [] s.fmt = "number" -> [raised |-> Some([type |-> "TypeError"]), value |-> None]
      [] OTHER -> [raised |-> Some([type |-> "ValueError"]), value |-> None]

EmptyStr == [fmt |-> "other", text |-> ""]

(* Python truth of a value read from the file: None and "" are false. *)
Truthy(v) == v # None /\ v # Some(EmptyStr)

-----------------------------------------------------------------------------
(* The token file.                                                         *)
(*   [k |-> "absent"]               no file at token_path                  *)
(*   [k |-> "invalid", len |-> n]   n bytes that are not JSON (n = 0: the  *)
(*                                  file was just truncated)               *)
(*   [k |-> "value", len |-> n]     JSON that is not an object             *)
(*   [k |-> "object", fields |-> f] a JSON object; f maps the keys it has  *)
(*                                  to their values, null being None       *)

AbsentFile == [k |-> "absent"]
InvalidJson(n) == [k |-> "invalid", len |-> n]
NonObject == [k |-> "value", len |-> 2]
Object(f) == [k |-> "object", fields |-> f]

(* Length in bytes of the text json.dump writes for a value. *)
ValueLen(key, v) ==
    IF v = None THEN 4
    ELSE IF key = "token" THEN TokLen(v[1]) + 2
    ELSE CASE v[1].fmt = "ymdhms" -> 21
           [] v[1].fmt = "number" -> 10
           [] v[1].text = "" -> 2
           [] OTHER -> 6

RECURSIVE FieldsLen(_, _)
FieldsLen(f, keys) ==
    IF keys = {} THEN 0
    ELSE LET key == CHOOSE x \in keys : TRUE
         IN Len(key) + 4 + ValueLen(key, f[key])
              + (IF keys = {key} THEN 0 ELSE 2) + FieldsLen(f, keys \ {key})

FileLen(f) ==
    CASE f.k = "absent" -> 0
      [] f.k = "object" -> 2 + FieldsLen(f.fields, DOMAIN f.fields)
      [] OTHER -> f.len

(* open(path, "w"): the file is created or cut to zero bytes. *)
open_w(f) == InvalidJson(0)

(* The text of `content` written at offset 0 of a file opened with "w":   *)
(* bytes already there beyond the text's end stay.                         *)
write_at_0(f, content) ==
    IF FileLen(f) <= FileLen(content) THEN content ELSE InvalidJson(FileLen(f))

(* json.load(f) *)
json_load(f) ==
    IF f.k = "invalid"
    THEN [raised |-> Some([type |-> "JSONDecodeError"]), data |-> None]
    ELSE [raised |-> None, data |-> Some(f)]

(* data.get(key): a dict's value or None; any other JSON value has no get. *)
dict_get(data, key) ==
    IF data.k # "object" THEN [raised |-> Some([type |-> "AttributeError"]), value |-> None]
    ELSE [raised |-> None,
          value |-> IF key \in DOMAIN data.fields THEN data.fields[key] ELSE None]

-----------------------------------------------------------------------------
(* A TokenManager instance as a method sees it through self: its plain    *)
(* attributes; `attrs`, the part of the instance dict holding _token and   *)
(* _expiry; and `cls`, the dict of the class TokenManager.  An attribute   *)
(* the instance dict lacks is read from the class.                         *)

(* The class body: _token = None, _expiry = None *)
ClassAttrs == [a \in {"_token", "_expiry"} |-> None]

(* self.a *)
GetAttr(inst, a) == IF a \in DOMAIN inst.attrs THEN inst.attrs[a] ELSE inst.cls[a]

(* A variant of the assignment that binds the name in the class, as        *)
(* TokenManager.a = v does.                                                *)
SetAttrOnClass(inst, a, v) == [inst EXCEPT !.cls = (a :> v) @@ @]

(* self.a = v: the name is bound in the instance dict. *)
SetAttr(inst, a, v) == [inst EXCEPT !.attrs = (a :> v) @@ @]

Token(inst) == GetAttr(inst, "_token")
Expiry(inst) == GetAttr(inst, "_expiry")

(* except (json.JSONDecodeError, FileNotFoundError, KeyError) *)
CaughtOnLoad == {"JSONDecodeError", "FileNotFoundError", "KeyError"}

load_token_from_file(inst, f) ==
    IF f.k = "absent" THEN [inst |-> inst, raised |-> None, io |-> <<"exists">>]
    ELSE
      LET io == <<"exists", "open_r">>
          reset == SetAttr(SetAttr(inst, "_token", None), "_expiry", None)
          Finish(err, i) ==
              IF err = None THEN [inst |-> i, raised |-> None, io |-> io]
              ELSE IF err[1].type \in CaughtOnLoad
                   THEN [inst |-> reset, raised |-> None, io |-> io]
                   ELSE [inst |-> i, raised |-> err, io |-> io]
          j == json_load(f)
      IN IF j.raised # None THEN Finish(j.raised, inst)
         ELSE
           LET tok == dict_get(j.data[1], "token")
           IN IF tok.raised # None THEN Finish(tok.raised, inst)
              ELSE
                LET i1 == SetAttr(inst, "_token", tok.value)
                    expiry_str == dict_get(j.data[1], "expiry").value
                IN IF ~Truthy(expiry_str) THEN Finish(None, i1)
                   ELSE LET p == strptime(expiry_str[1])
                        IN IF p.raised # None THEN Finish(p.raised, i1)
                           ELSE Finish(None, SetAttr(i1, "_expiry", p.value))

(* TokenManager.__init__ on a fresh instance of the class whose dict is    *)
(* cls; the result's cls is the class dict the constructor leaves behind,  *)
(* also when it raised.                                                    *)
TokenManager_init(cls, domain_name, f) ==
    LET d == get_domain_url(lower(domain_name))
    IN IF d.raised # None
       THEN [inst |-> None, raised |-> Some([type |-> d.raised[1]]), io |-> << >>,
             cls |-> cls]
       ELSE LET l == load_token_from_file(
                         [domain_url |-> d.value[1], attrs |-> << >>, cls |-> cls], f)
            IN [inst |-> IF l.raised = None THEN Some(l.inst) ELSE None,
                raised |-> l.raised, io |-> l.io, cls |-> l.inst.cls]

(* A variant of _save_token_to_file that opens the file with "a": the    *)
(* text lands behind what the file holds.                                  *)
save_token_append(inst, f) ==
    LET content == Object([token |-> Token(inst),
                           expiry |-> Some(strftime(Expiry(inst)[1]))])
    IN IF FileLen(f) = 0 THEN content
       ELSE InvalidJson(FileLen(f) + FileLen(content))

(* _save_token_to_file *)
save_token_to_file(inst, f) ==
    write_at_0(open_w(f),
               Object([token |-> Token(inst),
                       expiry |-> Some(strftime(Expiry(inst)[1]))]))

(* Variants of _is_token_expired: one with > for >=, one that takes a     *)
(* token for expired a whole lease early.                                  *)
is_token_expired_strict(inst, t) == Expiry(inst) = None \/ t > Expiry(inst)[1]
is_token_expired_eager(inst, t) ==
    Expiry(inst) = None \/ t + LeaseTicks >= Expiry(inst)[1]

(* _is_token_expired, with t the value of datetime.now() *)
is_token_expired(inst, t) == Expiry(inst) = None \/ t >= Expiry(inst)[1]

(* The answers of the OAuth endpoint to one POST: a response with a status *)
(* code, a text and, when the body is a JSON object with that key, an      *)
(* access_token; or no response at all (requests raises).                  *)
Response(status, token, text) ==
    [kind |-> "response", status |-> status, access_token |-> token, text |-> text]

Responses ==
    { Response(200, Some(t), "ok") : t \in ServerTokens }
      \cup { Response(200, None, "invalid_code"),
             Response(400, None, "invalid_client"),
             Response(204, Some("tokenB"), "no content") }
      \cup { [kind |-> "failed"] }

(* A variant of the status test that takes every 2xx for a success. *)
status_ok_2xx(resp) == resp.status \in 200..299

(* response.status_code == 200 *)
status_ok(resp) == resp.status = 200

(* _refresh_token, answered by resp, with t the value of datetime.now()   *)
(* on line 101.                                                            *)
refresh_token(inst, f, resp, t) ==
    LET io == <<"post">>
        Raise(e) == [inst |-> inst, file |-> f, raised |-> Some(e), io |-> io]
    IN CASE resp.kind = "failed" -> Raise([type |-> "RequestException"])
         [] ~status_ok(resp) ->
              Raise([type |-> "Exception", status |-> resp.status, text |-> resp.text])
         [] resp.access_token = None -> Raise([type |-> "KeyError"])
         [] OTHER ->
              LET i2 == SetAttr(SetAttr(inst, "_token", resp.access_token),
                                "_expiry", Some(t + LeaseTicks))
              IN [inst |-> i2, file |-> save_token_to_file(i2, f),
                  raised |-> None, io |-> io \o <<"open_w">>]

(* get_access_token: t0 is datetime.now() at the expiry check, t1 at the   *)
(* refresh.                                                                *)
NeedsRefresh(inst, t0) == Token(inst) = None \/ is_token_expired(inst, t0)

get_access_token(inst, f, resp, t0, t1) ==
    IF NeedsRefresh(inst, t0)
    THEN LET r == refresh_token(inst, f, resp, t1)
         IN [inst |-> r.inst, file |-> r.file, raised |-> r.raised, io |-> r.io,
             value |-> IF r.raised = None THEN Token(r.inst) ELSE None]
    ELSE [inst |-> inst, file |-> f, raised |-> None, io |-> << >>,
          value |-> Token(inst)]

-----------------------------------------------------------------------------
(* The files the constructor may find at token_path. *)

StartSecs == StartTicks \div TicksPerSec

FileTokens == {None, Some("tokA")}

FileExpiries ==
    { None, Some(EmptyStr), Some([fmt |-> "other", text |-> "soon"]),
      Some([fmt |-> "number"]) }
      \cup { Some([fmt |-> "ymdhms", secs |-> s]) :
                 s \in {StartSecs - 2, StartSecs, StartSecs + 1} }

InitialFiles ==
    { AbsentFile, InvalidJson(0), InvalidJson(7), NonObject, Object(<< >>) }
      \cup { Object([token |-> t]) : t \in FileTokens }
      \cup { Object([expiry |-> e]) : e \in FileExpiries }
      \cup { Object([token |-> t, expiry |-> e]) : t \in FileTokens, e \in FileExpiries }

-----------------------------------------------------------------------------
(* The token manager used from one thread. *)

NoCall == [op |-> "none", name |-> None, pre |-> None, raised |-> None,
           value |-> None, io |-> << >>, resp |-> None]

Threads == {1, 2}

(* A thread outside get_access_token(): n counts its calls; raised and    *)
(* value are the outcome of its last call; overlap tells whether it sent   *)
(* its refresh request while another thread's was in flight.               *)
IdleThread == [pc |-> "idle", n |-> 0, raised |-> None, value |-> None,
               resp |-> None, token |-> None, expiry |-> None,
               overlap |-> FALSE]

IdleThreads == [t \in Threads |-> IdleThread]

NoApiCall == [op |-> "none"]

Managers == {1, 2}

(* A process that has built no second manager. *)
NoManagers ==
    /\ klass = ClassAttrs
    /\ tms = [m \in Managers |-> None]
    /\ files = [m \in Managers |-> AbsentFile]

Init ==
    /\ tm = None
    /\ file \in InitialFiles
    /\ now = StartTicks
    /\ last = NoCall
    /\ calls = 0
    /\ advances = 0
    /\ issued = None
    /\ thr = IdleThreads
    /\ api = NoApiCall
    /\ NoManagers

(* TokenManager(domain_name, ...) *)
Construct(name) ==
    /\ tm = None
    /\ last.op = "none"
    /\ LET r == TokenManager_init(ClassAttrs, name, file)
       IN /\ tm' = r.inst
          /\ last' = [op |-> "init", name |-> Some(name), pre |-> None,
                      raised |-> r.raised, value |-> None, io |-> r.io,
                      resp |-> None]
    /\ UNCHANGED <<file, now, calls, advances, issued, thr, api, twoVars>>

(* The time an HTTP exchange may take, in ticks. *)
RequestTicks == {0, 1}

(* What a call on the manager leaves behind: r is what the method did,    *)
(* resp the endpoint's answer, d the ticks the exchange took.              *)
Called(op, r, resp, d) ==
    LET sent == r.io # << >>
    IN /\ tm' = Some(r.inst)
       /\ file' = r.file
       /\ now' = IF sent THEN now + d ELSE now
       /\ last' = [op |-> op, name |-> None,
                   pre |-> Some([token |-> Token(tm[1]), expiry |-> Expiry(tm[1]),
                                 now |-> now]),
                   raised |-> r.raised, value |-> r.value, io |-> r.io,
                   resp |-> IF sent THEN Some(resp) ELSE None]
       /\ issued' = IF sent /\ r.raised = None
                    THEN Some([token |-> resp.access_token[1], at |-> now + d])
                    ELSE issued
       /\ calls' = calls + 1
       /\ UNCHANGED <<advances, thr, api, twoVars>>

(* tm.get_access_token(), the OAuth endpoint answering resp after d ticks. *)
GetAccessToken(resp, d) ==
    /\ tm # None
    /\ calls < MaxCalls
    /\ Called("get_access_token", get_access_token(tm[1], file, resp, now, now + d),
              resp, d)

(* tm._refresh_token() called directly. *)
Refresh(resp, d) ==
    /\ tm # None
    /\ calls < MaxCalls
    /\ Called("_refresh_token",
              refresh_token(tm[1], file, resp, now + d) @@ [value |-> None],
              resp, d)

(* Time passes between calls. *)
ClockSteps == {1, LeaseTicks - 1, LeaseTicks}

Advance(delta) ==
    /\ tm # None
    /\ advances < MaxAdvances
    /\ now' = now + delta
    /\ advances' = advances + 1
    /\ UNCHANGED <<tm, file, last, calls, issued, thr, api, twoVars>>

Next ==
    \/ \E name \in DomainNames : Construct(name)
    \/ \E resp \in Responses, d \in RequestTicks : GetAccessToken(resp, d)
    \/ \E resp \in Responses, d \in RequestTicks : Refresh(resp, d)
    \/ \E delta \in ClockSteps : Advance(delta)

Spec == Init /\ [][Next]_vars

-----------------------------------------------------------------------------
(* Properties of the token manager used from one thread *)

PostCount(io) == Cardinality({i \in DOMAIN io : io[i] = "post"})

(* This step is a call of get_access_token() on the manager. *)
IsGetCall == tm # None /\ calls' = calls + 1 /\ last'.op = "get_access_token"

(* The endpoint answered r with status 200 and an access_token. *)
Issues(r) == r.kind = "response" /\ r.status = 200 /\ r.access_token # None

(* C1: when the in-memory token is absent, or the expiry is absent or not  *)
(* later than the current time, get_access_token() sends exactly one       *)
(* refresh request, and when the endpoint answers 200 with an access token *)
(* the call returns that new token.                                        *)
C1_StaleTokenRefreshedOnce ==
    [][ (/\ IsGetCall
         /\ \/ Token(tm[1]) = None
            \/ Expiry(tm[1]) = None
            \/ Expiry(tm[1])[1] <= now)
        => /\ PostCount(last'.io) = 1
           /\ last'.resp # None
           /\ Issues(last'.resp[1])
                => /\ last'.raised = None
                   /\ last'.value = last'.resp[1].access_token
                   /\ Token(tm'[1]) = last'.resp[1].access_token ]_vars

(* C1 witness: a cached token had expired, and the call returned the       *)
(* different token the endpoint issued.                                    *)
C1_Witness ==
    /\ last.op = "get_access_token"
    /\ last.pre[1].token # None
    /\ last.pre[1].expiry # None
    /\ last.pre[1].expiry[1] <= last.pre[1].now
    /\ PostCount(last.io) = 1
    /\ Issues(last.resp[1])
    /\ last.value = last.resp[1].access_token
    /\ last.value # last.pre[1].token

(* C2: when the in-memory token is present and the current time is before  *)
(* the expiry, get_access_token() returns that token with no I/O at all    *)
(* and changes neither the manager nor the file; so a call right after a   *)
(* successful refresh, with no time elapsed, returns the token that        *)
(* refresh issued without a second request.                                *)
C2_FreshTokenServedFromMemory ==
    [][ /\ (/\ IsGetCall
            /\ Token(tm[1]) # None
            /\ Expiry(tm[1]) # None
            /\ now < Expiry(tm[1])[1])
           => /\ last'.io = << >>
              /\ last'.raised = None
              /\ last'.value = Token(tm[1])
              /\ tm' = tm
              /\ file' = file
        /\ (IsGetCall /\ issued # None /\ issued[1].at = now)
           => /\ last'.io = << >>
              /\ last'.value = Some(issued[1].token) ]_vars

(* C2 witness: the second of two calls, made at the very time of the       *)
(* refresh the first one did, returned the issued token without I/O.       *)
C2_Witness ==
    /\ calls = 2
    /\ last.op = "get_access_token"
    /\ issued # None
    /\ issued[1].at = last.pre[1].now
    /\ last.io = << >>
    /\ last.value = Some(issued[1].token)

(* C3: a refresh, direct or through get_access_token(), that is answered   *)
(* with a status other than 200 raises an error carrying the status code   *)
(* and the response text, and leaves token, expiry and file as they were.  *)
C3_FailedRefreshLeavesState ==
    [][ (/\ tm # None
         /\ calls' = calls + 1
         /\ last'.resp # None
         /\ last'.resp[1].kind = "response"
         /\ last'.resp[1].status # 200)
        => /\ last'.raised = Some([type |-> "Exception",
                                   status |-> last'.resp[1].status,
                                   text |-> last'.resp[1].text])
           /\ Token(tm'[1]) = Token(tm[1])
           /\ Expiry(tm'[1]) = Expiry(tm[1])
           /\ file' = file ]_vars

(* C3 witness: after a successful refresh, a later refresh was answered    *)
(* with a non-200 status that carried a token; the call raised and the     *)
(* earlier token is still the cached one.                                  *)
C3_Witness ==
    /\ issued # None
    /\ last.resp # None
    /\ last.resp[1].kind = "response"
    /\ last.resp[1].status # 200
    /\ last.resp[1].access_token # None
    /\ last.raised # None
    /\ last.raised[1].type = "Exception"
    /\ Token(tm[1]) = last.pre[1].token
    /\ Token(tm[1]) = Some(issued[1].token)
    /\ Token(tm[1]) # last.resp[1].access_token

(* C4: once a refresh has succeeded, the file holds the token of the most  *)
(* recent successful refresh and, as its expiry, that refresh's timestamp  *)
(* plus 50 minutes cut to whole seconds; the in-memory token and expiry    *)
(* are the same token and the uncut timestamp plus 50 minutes.             *)
C4_FileHoldsLatestRefresh ==
    issued # None
    => /\ tm # None
       /\ Token(tm[1]) = Some(issued[1].token)
       /\ Expiry(tm[1]) = Some(issued[1].at + LeaseMinutes * 60 * TicksPerSec)
       /\ file = Object([token |-> Some(issued[1].token),
                         expiry |-> Some([fmt |-> "ymdhms",
                                          secs |-> issued[1].at \div TicksPerSec
                                                     + LeaseMinutes * 60])])
       /\ file.fields.expiry[1].secs * TicksPerSec <= Expiry(tm[1])[1]
       /\ Expiry(tm[1])[1] < (file.fields.expiry[1].secs + 1) * TicksPerSec

(* C4 witness: a second successful refresh replaced the record the first   *)
(* one wrote, at a time that is not a whole second.                        *)
C4_Witness ==
    /\ issued # None
    /\ calls = 2
    /\ last.io = <<"post", "open_w">>
    /\ last.pre[1].token # None
    /\ last.pre[1].token # Some(issued[1].token)
    /\ last.pre[1].expiry[1] >= StartTicks + LeaseTicks
    /\ file.fields.token = Some(issued[1].token)
    /\ Expiry(tm[1])[1] % TicksPerSec # 0

(* The ways the claim C5 names in which a token file is malformed. *)
Malformed(f) ==
    \/ f.k = "invalid"
    \/ f.k = "value"
    \/ /\ f.k = "object"
       /\ \/ "token" \notin DOMAIN f.fields
          \/ "expiry" \notin DOMAIN f.fields
          \/ /\ f.fields.expiry # None
             /\ f.fields.expiry[1].fmt = "other"

(* name is a region's name up to letter case. *)
SpellingOf(name, r) ==
    /\ Len(name) = Len(r)
    /\ \A i \in 1..Len(r) : name[i] \in {r[i], UpperChar(r[i])}

Recognized(name) == \E r \in Regions : SpellingOf(name, r)

(* C5: constructing a manager on a malformed token file raises nothing     *)
(* and leaves token and expiry absent, as when there is no file.           *)
C5_MalformedFileIsColdStart ==
    (last.op = "init" /\ Recognized(last.name[1]) /\ Malformed(file))
    => /\ last.raised = None
       /\ tm # None
       /\ Token(tm[1]) = None
       /\ Expiry(tm[1]) = None

(* C9: construction with a region's name in any letter case succeeds and   *)
(* domain_url is that region's URL; with any other name it fails with a    *)
(* KeyError before any file access, and there is no manager.               *)
C9_RegionNamesResolve ==
    last.op = "init"
    => /\ \A r \in Regions :
            SpellingOf(last.name[1], r)
            => /\ last.raised = None
               /\ tm # None
               /\ tm[1].domain_url = zoho_urls[r]
       /\ ~Recognized(last.name[1])
            => /\ last.raised = Some([type |-> "KeyError"])
               /\ last.io = << >>
               /\ tm = None

-----------------------------------------------------------------------------
(* The API client, ZohoApi.                                                *)
(* A str argument is None or Some(text).  A URL built by an f-string is    *)
(* the sequence of the parts the "/" separate.                             *)

(* Python's `not v` for a str or None. *)
Falsy(v) == v = None \/ v = Some("")

(* A variant of the test: `v is None`. *)
IsNone(v) == v = None

(* `not v` as the validation of fetch_file and fetch_related_list uses it. *)
Missing(v) == Falsy(v)

(* str(v) inside an f-string *)
Fmt(v) == IF v = None THEN "None" ELSE v[1]

BaseUrl == "https://www.zohoapis.com/crm/v2"

(* utils.get_header *)
get_header(token) == [Authorization |-> <<"Zoho-oauthtoken", Fmt(token)>>]

NoBody == [kind |-> "none"]
JsonBody(j) == [kind |-> "json", json |-> j]
DataBody(d) == [kind |-> "data", data |-> d]
FilesBody(path) == [kind |-> "files", file |-> path]

(* What the server does with one request: a response, returned as it is    *)
(* whatever its status, or no response (requests raises).                  *)
Replies == { [kind |-> "response", status |-> 200],
             [kind |-> "response", status |-> 404],
             [kind |-> "failed"] }

(* _make_request: one requests.request(...) *)
make_request(method, url, body, token, reply) ==
    LET req == [method |-> method, url |-> url, headers |-> get_header(token),
                body |-> body]
    IN IF reply.kind = "failed"
       THEN [raised |-> Some([type |-> "RequestException"]), value |-> None,
             sent |-> <<req>>]
       ELSE [raised |-> None, value |-> Some(reply), sent |-> <<req>>]

Raises(type) == [raised |-> Some([type |-> type]), value |-> None, sent |-> << >>]

create_record(moduleName, data, token, reply) ==
    make_request("POST", <<BaseUrl, moduleName>>, JsonBody(data), token, reply)

read_record(moduleName, id, token, reply) ==
    make_request("GET",
                 IF Falsy(id) THEN <<BaseUrl, moduleName>>
                 ELSE <<BaseUrl, moduleName, Fmt(id)>>,
                 NoBody, token, reply)

fetch_module_data(moduleName, token, reply) ==
    make_request("GET", <<BaseUrl, moduleName>>, NoBody, token, reply)

update_record(moduleName, id, data, token, reply) ==
    make_request("PUT", <<BaseUrl, moduleName, Fmt(id)>>, JsonBody(data), token, reply)

patch_record(moduleName, id, data, token, reply) ==
    make_request("PATCH", <<BaseUrl, moduleName, Fmt(id)>>,
                 JsonBody([data |-> <<data>>]), token, reply)

delete_record(moduleName, id, token, reply) ==
    make_request("DELETE", <<BaseUrl, moduleName, Fmt(id)>>, NoBody, token, reply)

(* The local files open(file_path, "rb") finds. *)
ExistingFiles == {"/tmp/a.pdf"}

(* A variant of attach_file that looks at file_url first. *)
attach_file_url_first(moduleName, record_id, file_path, file_url, token, reply) ==
    LET url == <<BaseUrl, moduleName, Fmt(record_id), "Attachments">>
    IN CASE ~Falsy(file_url) ->
              make_request("POST", url, DataBody([attachmentUrl |-> file_url[1]]),
                           token, reply)
         [] ~Falsy(file_path) ->
              IF file_path[1] \in ExistingFiles
              THEN make_request("POST", url, FilesBody(file_path[1]), token, reply)
              ELSE Raises("FileNotFoundError")
         [] OTHER -> Raises("ValueError")

attach_file(moduleName, record_id, file_path, file_url, token, reply) ==
    LET url == <<BaseUrl, moduleName, Fmt(record_id), "Attachments">>
    IN CASE ~Falsy(file_path) ->
              IF file_path[1] \in ExistingFiles
              THEN make_request("POST", url, FilesBody(file_path[1]), token, reply)
              ELSE Raises("FileNotFoundError")
         [] ~Falsy(file_url) ->
              make_request("POST", url, DataBody([attachmentUrl |-> file_url[1]]),
                           token, reply)
         [] OTHER -> Raises("ValueError")

(* A variant of fetch_file that asks for the one file whenever a file_id   *)
(* is given.                                                               *)
fetch_file_by_id_first(moduleName, record_id, file_id, token, fetch_all, reply) ==
    CASE Missing(record_id) -> Raises("ValueError")
      [] Missing(token) -> Raises("ValueError")
      [] ~Falsy(file_id) ->
           make_request("GET",
                        <<BaseUrl, moduleName, Fmt(record_id), "Attachments", Fmt(file_id)>>,
                        NoBody, token, reply)
      [] fetch_all ->
           make_request("GET", <<BaseUrl, moduleName, Fmt(record_id), "Attachments">>,
                        NoBody, token, reply)
      [] OTHER -> Raises("ValueError")

fetch_file(moduleName, record_id, file_id, token, fetch_all, reply) ==
    CASE Missing(record_id) -> Raises("ValueError")
      [] Missing(token) -> Raises("ValueError")
      [] fetch_all ->
           make_request("GET", <<BaseUrl, moduleName, Fmt(record_id), "Attachments">>,
                        NoBody, token, reply)
      [] Missing(file_id) -> Raises("ValueError")
      [] OTHER ->
           make_request("GET",
                        <<BaseUrl, moduleName, Fmt(record_id), "Attachments", Fmt(file_id)>>,
                        NoBody, token, reply)

fetch_related_list(moduleName, record_id, token, name, reply) ==
    CASE Missing(record_id) -> Raises("ValueError")
      [] Missing(token) -> Raises("ValueError")
      [] Missing(name) -> Raises("ValueError")
      [] OTHER ->
           make_request("GET", <<BaseUrl, moduleName, Fmt(record_id), Fmt(name)>>,
                        NoBody, token, reply)

-----------------------------------------------------------------------------
(* Calls on the API client *)

Modules == {"Leads"}
Ids == {None, Some(""), Some("42")}
ApiTokens == {None, Some(""), Some("tokA")}
Payloads == {[Last_Name |-> "Doe"]}
FilePaths == {None, Some(""), Some("/tmp/a.pdf"), Some("/tmp/missing.pdf")}
FileUrls == {None, Some(""), Some("https://example.com/a.pdf")}
FileIds == {None, Some(""), Some("7")}
ListNames == {None, Some(""), Some("Notes")}

InitApi ==
    /\ tm = None
    /\ file = AbsentFile
    /\ now = StartTicks
    /\ last = NoCall
    /\ calls = 0
    /\ advances = 0
    /\ issued = None
    /\ thr = IdleThreads
    /\ api = NoApiCall
    /\ NoManagers

(* The record of a call: r is what the method did, reply the server's      *)
(* answer to the request, if one was sent.                                 *)
ApiCalled(op, args, r, reply) ==
    [op |-> op, args |-> args, raised |-> r.raised, value |-> r.value,
     sent |-> r.sent, reply |-> IF r.sent = << >> THEN None ELSE Some(reply)]

tmVars == <<tm, file, now, last, calls, advances, issued, thr, twoVars>>

CreateRecord(m, data, token, reply) ==
    /\ api' = ApiCalled("create_record", [moduleName |-> m, data |-> data, token |-> token],
                       create_record(m, data, token, reply), reply)
    /\ UNCHANGED tmVars

ReadRecord(m, id, token, reply) ==
    /\ api' = ApiCalled("read_record", [moduleName |-> m, id |-> id, token |-> token],
                       read_record(m, id, token, reply), reply)
    /\ UNCHANGED tmVars

FetchModuleData(m, token, reply) ==
    /\ api' = ApiCalled("fetch_module_data", [moduleName |-> m, token |-> token],
                       fetch_module_data(m, token, reply), reply)
    /\ UNCHANGED tmVars

UpdateRecord(m, id, data, token, reply) ==
    /\ api' = ApiCalled("update_record",
                       [moduleName |-> m, id |-> id, data |-> data, token |-> token],
                       update_record(m, id, data, token, reply), reply)
    /\ UNCHANGED tmVars

PatchRecord(m, id, data, token, reply) ==
    /\ api' = ApiCalled("patch_record",
                       [moduleName |-> m, id |-> id, data |-> data, token |-> token],
                       patch_record(m, id, data, token, reply), reply)
    /\ UNCHANGED tmVars

DeleteRecord(m, id, token, reply) ==
    /\ api' = ApiCalled("delete_record", [moduleName |-> m, id |-> id, token |-> token],
                       delete_record(m, id, token, reply), reply)
    /\ UNCHANGED tmVars

AttachFile(m, id, path, url, token, reply) ==
    /\ api' = ApiCalled("attach_file",
                       [moduleName |-> m, id |-> id, file_path |-> path, file_url |-> url,
                        token |-> token],
                       attach_file(m, id, path, url, token, reply), reply)
    /\ UNCHANGED tmVars

FetchFile(m, id, file_id, token, fetch_all, reply) ==
    /\ api' = ApiCalled("fetch_file",
                       [moduleName |-> m, id |-> id, file_id |-> file_id, token |-> token,
                        fetch_all |-> fetch_all],
                       fetch_file(m, id, file_id, token, fetch_all, reply), reply)
    /\ UNCHANGED tmVars

FetchRelatedList(m, id, token, name, reply) ==
    /\ api' = ApiCalled("fetch_related_list",
                       [moduleName |-> m, id |-> id, token |-> token, name |-> name],
                       fetch_related_list(m, id, token, name, reply), reply)
    /\ UNCHANGED tmVars

NextApi ==
    \E m \in Modules, id \in Ids, token \in ApiTokens, reply \in Replies :
        \/ \E data \in Payloads : CreateRecord(m, data, token, reply)
        \/ ReadRecord(m, id, token, reply)
        \/ FetchModuleData(m, token, reply)
        \/ \E data \in Payloads : UpdateRecord(m, id, data, token, reply)
        \/ \E data \in Payloads : PatchRecord(m, id, data, token, reply)
        \/ DeleteRecord(m, id, token, reply)
        \/ \E path \in FilePaths, url \in FileUrls :
               AttachFile(m, id, path, url, token, reply)
        \/ \E file_id \in FileIds, fetch_all \in BOOLEAN :
               FetchFile(m, id, file_id, token, fetch_all, reply)
        \/ \E name \in ListNames : FetchRelatedList(m, id, token, name, reply)

SpecApi == InitApi /\ [][NextApi]_vars

-----------------------------------------------------------------------------
(* Properties of the API client *)

(* An argument that is empty or absent. *)
Empty(v) == v \in {None, Some("")}

ValueError == Some([type |-> "ValueError"])

(* The call api failed on its arguments before any request was sent. *)
Rejected == api.raised = ValueError /\ api.sent = << >>

(* The call api sent one request, with this method, URL and body. *)
SentOne(method, url, body) ==
    /\ Len(api.sent) = 1
    /\ api.sent[1].method = method
    /\ api.sent[1].url = url
    /\ api.sent[1].body = body

(* The call api was given an empty or absent value for an identifier that  *)
(* claim C6 takes to be required.                                          *)
EmptyIdentifier ==
    \/ /\ api.op \in {"update_record", "patch_record", "delete_record",
                      "attach_file", "fetch_file", "fetch_related_list"}
       /\ Empty(api.args.id)
    \/ /\ api.op \in {"fetch_file", "fetch_related_list"}
       /\ Empty(api.args.token)
    \/ /\ api.op = "fetch_file"
       /\ ~api.args.fetch_all
       /\ Empty(api.args.file_id)
    \/ /\ api.op = "fetch_related_list"
       /\ Empty(api.args.name)

C7_AttachFileSource ==
    api.op = "attach_file"
    => LET a == api.args
           url == <<BaseUrl, a.moduleName, Fmt(a.id), "Attachments">>
       IN /\ (Empty(a.file_path) /\ Empty(a.file_url)) => Rejected
          /\ (~Empty(a.file_path) /\ ~Empty(a.file_url))
             => IF a.file_path[1] \in ExistingFiles
                THEN SentOne("POST", url, [kind |-> "files", file |-> a.file_path[1]])
                ELSE /\ api.raised = Some([type |-> "FileNotFoundError"])
                     /\ api.sent = << >>
          /\ (Empty(a.file_path) /\ ~Empty(a.file_url))
             => SentOne("POST", url,
                        [kind |-> "data", data |-> [attachmentUrl |-> a.file_url[1]]])

(* C7 witness: attach_file was given a file that exists and a URL, and     *)
(* uploaded the file.                                                      *)
C7_Witness ==
    /\ api.op = "attach_file"
    /\ api.args.file_path = Some("/tmp/a.pdf")
    /\ ~Empty(api.args.file_url)
    /\ Len(api.sent) = 1
    /\ api.sent[1].body.kind = "files"
    /\ api.value # None

(* C8: fetch_file with fetch_all=False and no file_id raises ValueError    *)
(* before any request; with fetch_all=True, a record id and a token it     *)
(* sends one GET to /{module}/{id}/Attachments, whatever the file_id, and  *)
(* returns the response; with fetch_all=False and a file_id it sends one   *)
(* GET to /{module}/{id}/Attachments/{fileId}.                             *)
C8_FetchFileSelection ==
    api.op = "fetch_file"
    => LET a == api.args
           given == ~Empty(a.id) /\ ~Empty(a.token)
           all == <<BaseUrl, a.moduleName, a.id[1], "Attachments">>
       IN /\ (~a.fetch_all /\ Empty(a.file_id)) => Rejected
          /\ (a.fetch_all /\ given)
             => /\ SentOne("GET", all, [kind |-> "none"])
                /\ api.reply[1].kind = "response"
                     => api.raised = None /\ api.value = api.reply
          /\ (~a.fetch_all /\ ~Empty(a.file_id) /\ given)
             => SentOne("GET", all \o <<a.file_id[1]>>, [kind |-> "none"])

(* C8 witness: fetch_file with fetch_all=True and a file_id fetched the    *)
(* whole list and returned the response.                                   *)
C8_Witness ==
    /\ api.op = "fetch_file"
    /\ api.args.fetch_all
    /\ api.args.file_id = Some("7")
    /\ Len(api.sent) = 1
    /\ Len(api.sent[1].url) = 4
    /\ api.value = Some([kind |-> "response", status |-> 200])

-----------------------------------------------------------------------------
(* The token manager used from two threads at once.  Each thread runs      *)
(* get_access_token() statement by statement; thr[t].pc is the statement   *)
(* it is at, and resp, token, expiry are its local variables (the response *)
(* it got, the two values it has read for json.dump).  The variable last   *)
(* records the last write to the file.                                     *)

(* The managers two threads may share: whatever the constructor makes of   *)
(* a token file.                                                           *)
InitConc ==
    /\ \E f \in InitialFiles :
          LET r == TokenManager_init(ClassAttrs, India, f)
          IN /\ r.raised = None
             /\ tm = r.inst
             /\ file = f
    /\ now = StartTicks
    /\ last = NoCall
    /\ calls = 0
    /\ advances = 0
    /\ issued = None
    /\ thr = IdleThreads
    /\ api = NoApiCall
    /\ NoManagers

Goto(t, pc) == [thr EXCEPT ![t].pc = pc]

(* The threads whose refresh request is sent and not yet answered. *)
InFlight == {t \in Threads : thr[t].pc = "await"}

(* The thread leaves get_access_token() by an exception. *)
Fail(t, e) ==
    [thr EXCEPT ![t].pc = "idle", ![t].raised = Some(e), ![t].value = None,
                ![t].resp = None]

concVars == <<calls, advances, issued, api, twoVars>>

(* def get_access_token(self) *)
Call(t) ==
    /\ thr[t].pc = "idle"
    /\ thr[t].n < MaxThreadCalls
    /\ thr' = [thr EXCEPT ![t] = [IdleThread EXCEPT !.pc = "check_token",
                                                    !.n = thr[t].n + 1,
                                                    !.overlap = thr[t].overlap]]
    /\ UNCHANGED <<tm, file, now, last, concVars>>

(* line 81: self._token is None or ... *)
CheckToken(t) ==
    /\ thr[t].pc = "check_token"
    /\ thr' = Goto(t, IF Token(tm[1]) = None THEN "post" ELSE "check_expiry")
    /\ UNCHANGED <<tm, file, now, last, concVars>>

(* line 81: ... self._is_token_expired() *)
CheckExpiry(t) ==
    /\ thr[t].pc = "check_expiry"
    /\ thr' = Goto(t, IF is_token_expired(tm[1], now) THEN "post" ELSE "return")
    /\ UNCHANGED <<tm, file, now, last, concVars>>

(* A variant of line 98 behind a single-flight guard: no request is sent   *)
(* while another thread is refreshing.                                     *)
SendRequestSingleFlight(t) ==
    /\ thr[t].pc = "post"
    /\ \A u \in Threads \ {t} :
           thr[u].pc \in {"idle", "check_token", "check_expiry", "post", "return"}
    /\ thr' = [thr EXCEPT ![t].pc = "await", ![t].overlap = InFlight # {}]
    /\ UNCHANGED <<tm, file, now, last, concVars>>

(* line 98: requests.post(url, params=params) is sent *)
SendRequest(t) ==
    /\ thr[t].pc = "post"
    /\ thr' = [thr EXCEPT ![t].pc = "await", ![t].overlap = InFlight # {}]
    /\ UNCHANGED <<tm, file, now, last, concVars>>

(* lines 98-99, 104: the answer arrives and its status is tested *)
Receive(t, resp) ==
    /\ thr[t].pc = "await"
    /\ thr' = CASE resp.kind = "failed" -> Fail(t, [type |-> "RequestException"])
                [] ~status_ok(resp) ->
                     Fail(t, [type |-> "Exception", status |-> resp.status,
                              text |-> resp.text])
                [] OTHER -> [thr EXCEPT ![t].pc = "set_token", ![t].resp = Some(resp)]
    /\ UNCHANGED <<tm, file, now, last, concVars>>

(* line 100: self._token = response.json()["access_token"] *)
SetToken(t) ==
    /\ thr[t].pc = "set_token"
    /\ IF thr[t].resp[1].access_token = None
       THEN /\ thr' = Fail(t, [type |-> "KeyError"])
            /\ tm' = tm
       ELSE /\ tm' = Some(SetAttr(tm[1], "_token", thr[t].resp[1].access_token))
            /\ thr' = Goto(t, "set_expiry")
    /\ UNCHANGED <<file, now, last, concVars>>

(* line 101: self._expiry = datetime.now() + timedelta(minutes=50) *)
SetExpiry(t) ==
    /\ thr[t].pc = "set_expiry"
    /\ tm' = Some(SetAttr(tm[1], "_expiry", Some(now + LeaseTicks)))
    /\ thr' = Goto(t, "open")
    /\ UNCHANGED <<file, now, last, concVars>>

(* line 73: open(self.token_path, "w") *)
OpenFile(t) ==
    /\ thr[t].pc = "open"
    /\ file' = open_w(file)
    /\ thr' = Goto(t, "dump_token")
    /\ UNCHANGED <<tm, now, last, concVars>>

(* line 75: "token": self._token *)
DumpToken(t) ==
    /\ thr[t].pc = "dump_token"
    /\ thr' = [thr EXCEPT ![t].pc = "dump_expiry", ![t].token = Token(tm[1])]
    /\ UNCHANGED <<tm, file, now, last, concVars>>

(* line 76: "expiry": self._expiry.strftime(...) *)
DumpExpiry(t) ==
    /\ thr[t].pc = "dump_expiry"
    /\ thr' = [thr EXCEPT ![t].pc = "close",
                          ![t].expiry = Some(strftime(Expiry(tm[1])[1]))]
    /\ UNCHANGED <<tm, file, now, last, concVars>>

(* lines 73-77: json.dump's text reaches the file as the with block closes *)
CloseFile(t) ==
    /\ thr[t].pc = "close"
    /\ LET text == Object([token |-> thr[t].token, expiry |-> thr[t].expiry])
       IN /\ file' = write_at_0(file, text)
          /\ last' = [NoCall EXCEPT !.op = "write", !.name = Some(t),
                                    !.pre = Some(file), !.value = Some(text)]
    /\ thr' = [thr EXCEPT ![t].pc = "return", ![t].token = None, ![t].expiry = None]
    /\ UNCHANGED <<tm, now, concVars>>

(* line 83: return self._token *)
Return(t) ==
    /\ thr[t].pc = "return"
    /\ thr' = [thr EXCEPT ![t].pc = "idle", ![t].value = Token(tm[1]),
                          ![t].resp = None]
    /\ UNCHANGED <<tm, file, now, last, concVars>>

(* Time passes. *)
Tick ==
    /\ advances < MaxAdvances
    /\ \E delta \in ClockSteps : now' = now + delta
    /\ advances' = advances + 1
    /\ UNCHANGED <<tm, file, last, calls, issued, thr, api, twoVars>>

NextConc ==
    \/ \E t \in Threads :
         \/ Call(t)
         \/ CheckToken(t)
         \/ CheckExpiry(t)
         \/ SendRequest(t)
         \/ \E resp \in Responses : Receive(t, resp)
         \/ SetToken(t)
         \/ SetExpiry(t)
         \/ OpenFile(t)
         \/ DumpToken(t)
         \/ DumpExpiry(t)
         \/ CloseFile(t)
         \/ Return(t)
    \/ Tick

SpecConc == InitConc /\ [][NextConc]_vars

-----------------------------------------------------------------------------
(* Properties of the token manager used from two threads *)

(* The thread holds the token file open for writing. *)
HasOpen(t) == thr[t].pc \in {"dump_token", "dump_expiry", "close"}

(* The file has been written and no thread has it open. *)
Settled == last.op = "write" /\ \A t \in Threads : ~HasOpen(t)

(* C10, as claimed: nothing keeps a thread from sending its refresh        *)
(* request while another's is in flight, and the file ends up as the text  *)
(* of whichever write came last.                                           *)
C10_LastWriterWins ==
    /\ \A t \in Threads : thr[t].pc = "post" => ENABLED SendRequest(t)
    /\ Settled => file = last.value[1]

(* C10, amended: nothing keeps a thread from sending its refresh request   *)
(* while another's is in flight; each save cuts the file to zero bytes and *)
(* later puts its own text at offset 0, so the last write finds the file   *)
(* empty or holding the other thread's whole text, and the file ends up as *)
(* the last writer's text unless the text it overwrote was longer, when    *)
(* the longer text's tail stays behind it and the file is not valid JSON.  *)
C10_LastWriteLands ==
    /\ \A t \in Threads : thr[t].pc = "post" => ENABLED SendRequest(t)
    /\ Settled
       => /\ last.pre[1] = InvalidJson(0) \/ last.pre[1].k = "object"
          /\ IF FileLen(last.pre[1]) <= FileLen(last.value[1])
             THEN file = last.value[1]
             ELSE file = InvalidJson(FileLen(last.pre[1]))

(* C10 witness: both threads called once on a manager whose token was      *)
(* absent or expired, one sent its request while the other's was in        *)
(* flight, both                                                            *)
(* returned a token, and the file is the text of the write that came last, *)
(* which replaced the other thread's text.                                 *)
C10_Witness ==
    /\ \A t \in Threads :
          /\ thr[t].pc = "idle"
          /\ thr[t].n = 1
          /\ thr[t].raised = None
          /\ thr[t].value # None
    /\ \E t \in Threads : thr[t].overlap
    /\ Settled
    /\ last.pre[1].k = "object"
    /\ file = last.value[1]

-----------------------------------------------------------------------------
(* Two managers in one process, each built with its own credentials and    *)
(* its own token_dir / token_filename, used from one thread.  tms[m] is    *)
(* manager m's own part, its instance dict; the dict of the class is       *)
(* klass, the one object both instances reach through their type.          *)

(* self inside a method called on manager m. *)
Self(m) == [domain_url |-> tms[m][1].domain_url, attrs |-> tms[m][1].attrs,
            cls |-> klass]

(* What of self is the instance's own. *)
Own(inst) == [domain_url |-> inst.domain_url, attrs |-> inst.attrs]

(* The domain names the two managers are built with, and the files they   *)
(* may find at their token paths.                                          *)
TwoNames == {India, upper(Europe), <<"m","a","r","s">>}

TwoFiles ==
    { AbsentFile, InvalidJson(7),
      Object([token |-> Some("tokA")]),
      Object([token |-> Some("tokA"), expiry |-> Some([fmt |-> "other", text |-> "soon"])]),
      Object([token |-> Some("tokA"),
              expiry |-> Some([fmt |-> "ymdhms", secs |-> StartSecs + 1])]) }

(* The answers of the two managers' OAuth endpoints: a new token, a 200    *)
(* without one, a refusal, no response.                                    *)
TwoResponses ==
    { Response(200, Some("tokenB"), "ok"), Response(200, None, "invalid_code"),
      Response(400, None, "invalid_client"), [kind |-> "failed"] }

(* The time an HTTP exchange takes, and the steps of the clock between    *)
(* the calls.                                                              *)
TwoRequestTicks == {1}
TwoClockSteps == {1, LeaseTicks}

NoCallTwo == [op |-> "none", on |-> 0, name |-> None, pre |-> None,
              raised |-> None, value |-> None, io |-> << >>, resp |-> None]

InitTwo ==
    /\ tm = None
    /\ file = AbsentFile
    /\ now = StartTicks
    /\ last = NoCallTwo
    /\ calls = 0
    /\ advances = 0
    /\ issued = None
    /\ thr = IdleThreads
    /\ api = NoApiCall
    /\ klass = ClassAttrs
    /\ tms = [m \in Managers |-> None]
    /\ files \in [Managers -> TwoFiles]

(* tms[m] = TokenManager(name, ...); a constructor that raises leaves the  *)
(* name unbound.                                                           *)
ConstructTwo(m, name) ==
    /\ tms[m] = None
    /\ LET r == TokenManager_init(klass, name, files[m])
       IN /\ klass' = r.cls
          /\ tms' = [tms EXCEPT ![m] = IF r.inst = None THEN None
                                       ELSE Some(Own(r.inst[1]))]
          /\ last' = [op |-> "init", on |-> m, name |-> Some(name), pre |-> None,
                      raised |-> r.raised, value |-> None, io |-> r.io,
                      resp |-> None]
    /\ UNCHANGED <<tm, file, now, calls, advances, issued, thr, api, files>>

(* What a call on manager m leaves behind. *)
CalledTwo(m, op, r, resp, d) ==
    LET sent == r.io # << >>
    IN /\ klass' = r.inst.cls
       /\ tms' = [tms EXCEPT ![m] = Some(Own(r.inst))]
       /\ files' = [files EXCEPT ![m] = r.file]
       /\ now' = IF sent THEN now + d ELSE now
       /\ last' = [op |-> op, on |-> m, name |-> None,
                   pre |-> Some([token |-> Token(Self(m)),
                                 expiry |-> Expiry(Self(m)), now |-> now]),
                   raised |-> r.raised, value |-> r.value, io |-> r.io,
                   resp |-> IF sent THEN Some(resp) ELSE None]
       /\ calls' = calls + 1
       /\ UNCHANGED <<tm, file, advances, issued, thr, api>>

(* tms[m].get_access_token() *)
GetAccessTokenTwo(m, resp, d) ==
    /\ tms[m] # None
    /\ calls < MaxCalls
    /\ CalledTwo(m, "get_access_token",
                 get_access_token(Self(m), files[m], resp, now, now + d), resp, d)

(* tms[m]._refresh_token() *)
RefreshTwo(m, resp, d) ==
    /\ tms[m] # None
    /\ calls < MaxCalls
    /\ CalledTwo(m, "_refresh_token",
                 refresh_token(Self(m), files[m], resp, now + d) @@ [value |-> None],
                 resp, d)

(* Time passes between calls. *)
AdvanceTwo(delta) ==
    /\ \E m \in Managers : tms[m] # None
    /\ advances < MaxAdvances
    /\ now' = now + delta
    /\ advances' = advances + 1
    /\ UNCHANGED <<tm, file, last, calls, issued, thr, api, twoVars>>

NextTwo ==
    \/ \E m \in Managers, name \in TwoNames : ConstructTwo(m, name)
    \/ \E m \in Managers, resp \in TwoResponses, d \in TwoRequestTicks :
           GetAccessTokenTwo(m, resp, d)
    \/ \E m \in Managers, resp \in TwoResponses, d \in TwoRequestTicks :
           RefreshTwo(m, resp, d)
    \/ \E delta \in TwoClockSteps : AdvanceTwo(delta)

SpecTwo == InitTwo /\ [][NextTwo]_vars

-----------------------------------------------------------------------------
(* Properties of two managers in one process *)

(* The token and expiry a method of manager m reads from self. *)
Observed(m) == [token |-> Token(Self(m)), expiry |-> Expiry(Self(m))]

(* C11: with two managers in one process, a step that is not an operation  *)
(* on manager o (so every construction with its file load, and every       *)
(* successful or failed refresh, of the other manager) leaves the token    *)
(* and expiry that o reads from self as they were, and the class           *)
(* attributes _token and _expiry are None before and after every step.     *)
C11_TokenStateInstanceScoped ==
    [][ /\ klass = ClassAttrs
        /\ klass' = ClassAttrs
        /\ \A o \in Managers :
              (tms[o] # None /\ last'.on # o)
                  => (tms'[o] # None /\ Observed(o)' = Observed(o)) ]_vars

(* Manager 1 was built where no token file exists, so its instance dict    *)
(* binds neither name and it reads the class attributes; manager 2, built  *)
(* from a file holding a token, has then refreshed successfully; manager 1 *)
(* still reads None for both.                                              *)
C11_Witness ==
    /\ tms[1] # None
    /\ tms[2] # None
    /\ tms[1][1].attrs = << >>
    /\ last.on = 2
    /\ last.op \in {"get_access_token", "_refresh_token"}
    /\ last.raised = None
    /\ last.io # << >>
    /\ last.pre[1].token = Some("tokA")
    /\ Observed(2).token = Some("tokenB")
    /\ Observed(1) = [token |-> None, expiry |-> None]

=============================================================================
